---- MODULE Spec2Model ----
(***************************************************************************)
(* Model of buildd.py: a single worker that polls wanna-build for the next *)
(* package, builds it with sbuild, uploads it with dupload and reports the *)
(* outcome back to wanna-build.                                            *)
(*                                                                         *)
(* Strings that the code splits or concatenates are sequences of tokens    *)
(* (<<"chasquid", "_", "1", ":", "0.04-1">>), so that split and format are *)
(* computed and not assumed.  Optional values are <<>> (None) or <<v>>.    *)
(* Time is counted in hours.                                               *)
(***************************************************************************)
EXTENDS Integers, Sequences, FiniteSets, TLC

(* ---------------------------------------------------------------------- *)
(* Bounds of the model                                                     *)
(* ---------------------------------------------------------------------- *)

\* time.time() runs from 0 to MaxTime hours
MaxTime == 1

(* ---------------------------------------------------------------------- *)
(* Values                                                                  *)
(* ---------------------------------------------------------------------- *)

None == <<>>

Some(v) == <<v>>

\* the value of an optional that is set
The(o) == o[1]

\* Python truthiness of an Optional[int]: None and 0 are false
TruthyInt(o) == o # None /\ The(o) # 0

\* Python truthiness of an Optional[str]: None and '' are false
TruthyStr(o) == o # None /\ The(o) # <<>>

\* '{}'.format(n) for the small integers of the model
FormatInt(n) == <<CASE n = 0 -> "0" [] n = 1 -> "1" [] n = 2 -> "2" [] OTHER -> "n">>

\* index of the first occurrence of sep in s, 0 when there is none
RECURSIVE Find(_, _, _)
Find(s, sep, i) ==
    IF i > Len(s) THEN 0
    ELSE IF s[i] = sep THEN i
    ELSE Find(s, sep, i + 1)

\* s.split(sep, maxsplit): at most maxsplit cuts, so at most maxsplit + 1 pieces
RECURSIVE Split(_, _, _)
Split(s, sep, maxsplit) ==
    LET i == Find(s, sep, 1) IN
    IF maxsplit = 0 \/ i = 0 THEN <<s>>
    ELSE <<SubSeq(s, 1, i - 1)>> \o Split(SubSeq(s, i + 1, Len(s)), sep, maxsplit - 1)

\* s.split(sep): no limit on the number of cuts
SplitAll(s, sep) == Split(s, sep, Len(s))

\* sep in s
Contains(s, sep) == Find(s, sep, 1) # 0

(* ---------------------------------------------------------------------- *)
(* Key selection                                                           *)
(* ---------------------------------------------------------------------- *)

\* 24 * 60 * 60 seconds, in hours
ExpiryMargin == 24

\* a sec: record of gpg --with-colons
SecLine(keyid, expires) == [type |-> "sec", keyid |-> keyid, expires |-> expires]

\* a uid: record of gpg --with-colons, reduced to the address parseaddr extracts
UidLine(addr) == [type |-> "uid", email |-> addr]

\* any other record (rvk, fpr, grp)
OtherLine == [type |-> "fpr"]

\* Key(keyid, expiry, email)
Key(keyid, expiry, email) == [keyid |-> keyid, expiry |-> expiry, email |-> email]

\* RejectedKey that also rejects a key with exactly the margin left
RejectedKey_Inclusive(t, expires) == t + ExpiryMargin >= expires

\* the test of line 138: the key is rejected
RejectedKey(t, expires) == t + ExpiryMargin > expires

\* the loop body of _pick_gpg_key on one line; st = [keys, order, last_keyid]
PickStep(st, line, t) ==
    IF line.type = "uid" /\ st.last_keyid # None
    THEN [st EXCEPT !.keys[The(st.last_keyid)].email = Some(line.email)]
    ELSE IF line.type # "sec" THEN st
    ELSE IF RejectedKey(t, line.expires) THEN st
    ELSE [keys |-> [k \in DOMAIN st.keys \cup {line.keyid} |->
                      IF k = line.keyid
                      THEN Key(line.keyid, line.expires - t, None)
                      ELSE st.keys[k]],
          order |-> IF line.keyid \in DOMAIN st.keys
                    THEN st.order ELSE Append(st.order, line.keyid),
          last_keyid |-> Some(line.keyid)]

RECURSIVE PickLoop(_, _, _, _)
PickLoop(st, keylist, i, t) ==
    IF i > Len(keylist) THEN st
    ELSE PickLoop(PickStep(st, keylist[i], t), keylist, i + 1, t)

\* the keys dictionary after the loop of _pick_gpg_key
PickedKeys(keylist, t) ==
    PickLoop([keys |-> <<>>, order |-> <<>>, last_keyid |-> None], keylist, 1, t)

\* min(keys, key=...): the first key, in insertion order, of minimal expiry
RECURSIVE MinKey(_, _, _, _)
MinKey(keys, order, i, best) ==
    IF i > Len(order) THEN best
    ELSE MinKey(keys, order, i + 1,
                IF keys[order[i]].expiry < keys[best].expiry THEN order[i] ELSE best)

\* _pick_gpg_key raises KeyNotFoundError
KeyNotFound(keylist, t) == PickedKeys(keylist, t).order = <<>>

\* _pick_gpg_key(keylist) at time t, when it returns
_pick_gpg_key(keylist, t) ==
    LET st == PickedKeys(keylist, t) IN
    st.keys[MinKey(st.keys, st.order, 2, st.order[1])]

(* ---------------------------------------------------------------------- *)
(* Package                                                                 *)
(* ---------------------------------------------------------------------- *)

\* fields[yaml_field] if yaml_field in fields else None
Field(fields, name) == IF name \in DOMAIN fields THEN Some(fields[name]) ELSE None

\* Package.__init__
Package(name, fields) ==
    LET pkgver == Split(fields["pkg-ver"], "_", 2)
        source_package == pkgver[1]
        source_version == pkgver[2]
        epochless_source_version ==
            IF Contains(source_version, ":")
            THEN SplitAll(source_version, ":")[2]
            ELSE source_version
        binnmu == Field(fields, "binNMU")
        binnmu_suffix == IF TruthyInt(binnmu) THEN <<"+b">> \o FormatInt(The(binnmu)) ELSE <<>>
        binary_version == source_version \o binnmu_suffix
        epochless_binary_version == epochless_source_version \o binnmu_suffix
    IN [name |-> name,
        source_package |-> source_package,
        source_version |-> source_version,
        epochless_source_version |-> epochless_source_version,
        archive |-> fields["archive"],
        architecture |-> fields["arch"],
        distribution |-> fields["suite"],
        build_dep_resolver |-> Field(fields, "build_dep_resolver"),
        mail_logs |-> Field(fields, "mail_logs"),
        binnmu |-> binnmu,
        binnmu_changelog |-> Field(fields, "extra-changelog"),
        extra_depends |-> Field(fields, "extra-depends"),
        extra_conflicts |-> Field(fields, "extra-conflicts"),
        binary_version |-> binary_version,
        epochless_binary_version |-> epochless_binary_version,
        source_package_version |-> source_package \o <<"_">> \o source_version,
        source_package_binary_version |-> source_package \o <<"_">> \o binary_version,
        changes_file |-> source_package \o <<"_">> \o epochless_binary_version
                         \o <<"_", fields["arch"], ".changes">>]

(* ---------------------------------------------------------------------- *)
(* Configuration and the answers of the collaborators                      *)
(* ---------------------------------------------------------------------- *)

\* config['distributions'].split(' ')
distributions == <<"sid", "experimental">>

\* config['architectures'].split(' ')
architectures == <<"amd64", "i386">>

hostname == <<"host", ".", "example.org">>

\* hostname.split('.')[0]
short_hostname == SplitAll(hostname, ".")[1]

\* getpass.getuser()
user == "buildd"

_ARCHIVE_TO_DUPLOAD_TARGET ==
    [a \in {"debian", "debian-security", "debian-ports"} |->
        CASE a = "debian" -> "rsync-ftp-master"
          [] a = "debian-security" -> "rsync-security"
          [] a = "debian-ports" -> "rsync-ports"]

\* lines of a --list=needs-build answer
Line1 == <<"amd64", "/", "sid", "/", "chasquid_0.04-1", " ", "[optional:out-of-date]">>

Line2 == <<"amd64", "/", "sid", "/", "python3.6_3.6.4-4", " ", "[optional:out-of-date]">>

\* the answers wanna-build gives to --list=needs-build
ListResponses ==
    { <<>>,
      Line1 \o <<"\n">> \o Line2 \o <<"\n">> }

\* one single-key mapping of a take answer
KV(k, v) == [k |-> k, v |-> v]

\* the answers wanna-build gives to --take, each <<package name, descriptor>>
TakeResponses ==
    << <<"gobby", <<KV("status", "not ok"), KV("reason", "up-to-date")>> >>,
      <<"calligra", <<KV("status", "ok"), KV("pkg-ver", <<"chasquid", "_", "0.04-1">>),
                      KV("suite", "sid"), KV("arch", "amd64"), KV("archive", "debian"),
                      KV("build_dep_resolver", <<"aptitude">>),
                      KV("mail_logs", <<"logs@example.com">>)>> >>,
      <<"calligra", <<KV("status", "ok"), KV("pkg-ver", <<"chasquid", "_", "1", ":", "0.04-1">>),
                      KV("suite", "sid"), KV("arch", "amd64"), KV("archive", "debian"),
                      KV("binNMU", 1), KV("extra-changelog", <<"Rebuild.">>)>> >>,
      <<"doc", <<KV("status", "ok"), KV("pkg-ver", <<"doc", "_", "2", ":", "1.0">>),
                 KV("suite", "experimental"), KV("arch", "all"),
                 KV("archive", "debian-security"), KV("binNMU", 2)>> >>,
      <<"pkg", <<KV("status", "ok"), KV("pkg-ver", <<"pkg", "_", "1.2-3">>),
                 KV("suite", "sid"), KV("arch", "i386"), KV("archive", "debian-backports"),
                 KV("extra-depends", <<"glibc (>> 1)">>)>> >> >>

\* the exit statuses of sbuild
ReturnCodes == {0, 1, 2, 7}

\* the outputs of gpg --with-colons --list-secret-keys
KeyLists ==
    << << SecLine("B424EB74051F4844", 10), OtherLine, UidLine("old@example.com"),
         SecLine("DFE4C0B481F37BDB", 24), OtherLine, UidLine("buildd@example.com"),
         SecLine("135DC390E4032D36", 100), UidLine("next@example.com") >>,
      << SecLine("DFE4C0B481F37BDB", 24), UidLine("buildd@example.com") >> >>

(* ---------------------------------------------------------------------- *)
(* Builder                                                                 *)
(* ---------------------------------------------------------------------- *)

\* PairAt with the loops nested the other way round
PairAt_ArchOuter(i) ==
    [dist |-> distributions[((i - 1) % Len(distributions)) + 1],
     arch |-> architectures[((i - 1) \div Len(distributions)) + 1]]

\* the (distribution, architecture) pair of the i-th iteration of the nested
\* loops of _get_next_wb
PairAt(i) ==
    [dist |-> distributions[((i - 1) \div Len(architectures)) + 1],
     arch |-> architectures[((i - 1) % Len(architectures)) + 1]]

NumPairs == Len(distributions) * Len(architectures)

\* the data dictionary _parse_take_response builds from the descriptor
RECURSIVE Flatten(_, _, _)
Flatten(descriptor, i, data) ==
    IF i > Len(descriptor) THEN data
    ELSE Flatten(descriptor, i + 1,
                 [k \in DOMAIN data \cup {descriptor[i].k} |->
                     IF k = descriptor[i].k THEN descriptor[i].v ELSE data[k]])

\* _parse_take_response: None, or Some(Package)
_parse_take_response(response) ==
    LET data == Flatten(response[2], 1, <<>>) IN
    IF data["status"] # "ok" THEN None
    ELSE Some(Package(response[1], data))

\* archdistpkgver of _take
ArchDistPkgVer(line) == Split(line, " ", 2)[1]

\* _build_dir, below ~/build
_build_dir(p) == p.source_package \o <<"_">> \o p.epochless_source_version

\* _mail_from_email
_mail_from_email ==
    <<"buildd on ">> \o short_hostname \o <<" <", user, "@">> \o hostname \o <<">">>

\* Package.maintainer_email with the default template
maintainer_email(p, key) ==
    <<p.architecture, " Build Daemon (">> \o short_hostname
    \o <<") <", IF key.email = None THEN "None" ELSE The(key.email), ">">>

\* _construct_sbuild_cmd
_construct_sbuild_cmd(p, key) ==
    << <<"sbuild">>, <<"--apt-update">>, <<"--no-apt-upgrade">>, <<"--no-apt-distupgrade">>,
       <<"--no-run-lintian">>, <<"--batch">>, <<"--dist=", p.distribution>>,
       <<"--sbuild-mode=buildd">>, <<"--mailfrom=">> \o _mail_from_email,
       <<"--maintainer=">> \o maintainer_email(p, key), <<"--keyid=", key.keyid>> >>
    \o (IF p.architecture # "all"
        THEN << <<"--arch=", p.architecture>>, <<"--no-arch-all">> >>
        ELSE << <<"--arch-all">>, <<"--no-arch-any">> >>)
    \o (IF TruthyStr(p.build_dep_resolver)
        THEN << <<"--build-dep-resolver=">> \o The(p.build_dep_resolver) >> ELSE <<>>)
    \o (IF TruthyStr(p.mail_logs)
        THEN << <<"--mail-log-to=">> \o The(p.mail_logs) >> ELSE <<>>)
    \o (IF TruthyInt(p.binnmu) /\ TruthyStr(p.binnmu_changelog)
        THEN << <<"--binNMU=">> \o FormatInt(The(p.binnmu)),
                <<"--make-binNMU=">> \o The(p.binnmu_changelog) >> ELSE <<>>)
    \o (IF TruthyStr(p.extra_depends)
        THEN << <<"--add-depends=">> \o The(p.extra_depends) >> ELSE <<>>)
    \o (IF TruthyStr(p.extra_conflicts)
        THEN << <<"--add-conflicts=">> \o The(p.extra_conflicts) >> ELSE <<>>)
    \o << p.source_package_version >>

\* BuildResult without the branch of exit status 2
BuildResult_NoAttempted(rc) ==
    IF rc = 0 THEN "built"
    ELSE "give-back"

\* the verdict build derives from the exit status of sbuild
BuildResult(rc) ==
    IF rc = 0 THEN "built"
    ELSE IF rc = 2 THEN "attempted"
    ELSE "give-back"

\* the return value of build
BuildReturns(result) == result = "built"

\* @retry(stop_max_attempt_number=3, ...)
stop_max_attempt_number == 3

\* @retry(..., wait_fixed=2 * 60 * 1000), in minutes
wait_fixed == 2

\* RetryStops that allows one attempt more
RetryStops_OffByOne(n) == n > stop_max_attempt_number

\* retrying: no further attempt after attempt number n has failed
RetryStops(n) == n >= stop_max_attempt_number

(* ---------------------------------------------------------------------- *)
(* State                                                                   *)
(* ---------------------------------------------------------------------- *)

VARIABLES
    pc,        \* where main is
    exit,      \* the threading.Event set by SIGUSR1
    now,       \* time.time()
    keylist,   \* what gpg lists
    pairIdx,   \* the iteration of the loops of _get_next_wb
    pending,   \* pending[0] of _get_next_wb
    pkg,       \* the package next(pkgs) returned: None or Some(Package)
    result,    \* result of build
    target,    \* target of upload
    attempts,  \* attempts of _run_dupload made by retrying
    exc,       \* the exception in flight: None or Some(name)
    dirs,      \* the build directories that exist below ~/build
    calls,     \* what the current iteration of main did so far, in order
    signalled, \* where main was when SIGUSR1 first arrived, "" before
    polled,    \* an earlier iteration of main found a key and polled
    workers,   \* several processes of main on one queue: what each is doing
    queue      \* the state wanna-build keeps of each package

vars == <<pc, exit, now, keylist, pairIdx, pending, pkg, result, target, attempts, exc, dirs, calls,
          signalled, polled, workers, queue>>

\* a call of _query_wannabuild and its outcome
WB(arch, dist, command, ok, response) ==
    [op |-> "wb", arch |-> arch, dist |-> dist, command |-> command, ok |-> ok,
     response |-> response]

Init ==
    /\ pc = "top"
    /\ exit = FALSE
    /\ now = 0
    /\ keylist \in {KeyLists[i] : i \in DOMAIN KeyLists}
    /\ pairIdx = 1
    /\ pending = <<>>
    /\ pkg = None
    /\ result = ""
    /\ target = ""
    /\ attempts = 0
    /\ exc = None
    /\ dirs = {}
    /\ calls = <<>>
    /\ signalled = ""
    /\ polled = FALSE
    /\ workers = <<>>
    /\ queue = <<>>

(* ---------------------------------------------------------------------- *)
(* The environment                                                         *)
(* ---------------------------------------------------------------------- *)

Running == pc \notin {"exited", "crashed"}

\* the statements of main between build(pkg) and the end of cleanup(pkg)
JobPcs == {"build", "sbuild", "verdict", "upload", "dupload", "backoff", "uploaded",
           "giveback", "cleanup"}

\* the part of the loop of main a position belongs to
Phase(p) == IF p \in JobPcs THEN "job" ELSE IF p = "waiting" THEN "wait" ELSE "poll"

\* trigger_eventual_exit: SIGUSR1 arrives
Signal ==
    /\ Running
    /\ exit' = TRUE
    /\ signalled' = IF exit THEN signalled ELSE Phase(pc)
    /\ UNCHANGED <<pc, now, keylist, pairIdx, pending, pkg, result, target, attempts, exc, dirs, calls, polled, workers, queue>>

\* time passes
Tick ==
    /\ Running
    /\ now < MaxTime
    /\ now' = now + 1
    /\ UNCHANGED <<pc, exit, keylist, pairIdx, pending, pkg, result, target, attempts, exc, dirs, calls, signalled, polled, workers, queue>>

(* ---------------------------------------------------------------------- *)
(* main, Builder.builds and Builder._get_next_wb                           *)
(* ---------------------------------------------------------------------- *)

\* exit.is_set()
ExitIsSet == exit

\* the iteration that ends found a key in builds and went on to poll
HasPolled == calls # <<>> /\ calls[1].raised = None

\* LoopTop without the check of the flag
LoopTop_NoBreak ==
    /\ pc = "top"
    /\ pc' = "builds"
    /\ calls' = <<>>
    /\ pairIdx' = 1
    /\ pending' = <<>>
    /\ pkg' = None
    /\ result' = ""
    /\ target' = ""
    /\ attempts' = 0
    /\ polled' = (polled \/ HasPolled)
    /\ UNCHANGED <<exit, now, keylist, exc, dirs, signalled, workers, queue>>

\* the top of the loop of main: break when signalled, else next(pkgs)
LoopTop ==
    /\ pc = "top"
    /\ pc' = IF ExitIsSet THEN "exited" ELSE "builds"
    /\ calls' = <<>>
    /\ pairIdx' = 1
    /\ pending' = <<>>
    /\ pkg' = None
    /\ result' = ""
    /\ target' = ""
    /\ attempts' = 0
    /\ polled' = (polled \/ HasPolled)
    /\ UNCHANGED <<exit, now, keylist, exc, dirs, signalled, workers, queue>>

\* what a call of _pick_gpg_key() does: "CalledProcessError" when gpg fails,
\* "KeyNotFoundError" when no key is usable, else the key
PickOutcome(gpg_ok) ==
    IF ~gpg_ok THEN [raised |-> Some("CalledProcessError"), key |-> None]
    ELSE IF KeyNotFound(keylist, now) THEN [raised |-> Some("KeyNotFoundError"), key |-> None]
    ELSE [raised |-> None, key |-> Some(_pick_gpg_key(keylist, now))]

PickEvent(o) == [op |-> "pick_gpg_key", raised |-> o.raised, key |-> o.key]

\* Builds that keeps the key an earlier iteration found
Builds_Cached ==
    /\ pc = "builds"
    /\ \E gpg_ok \in BOOLEAN :
         LET o == IF polled THEN [raised |-> None, key |-> Some(_pick_gpg_key(keylist, 0))]
                  ELSE PickOutcome(gpg_ok) IN
         /\ calls' = Append(calls, PickEvent(o))
         /\ exc' = o.raised
         /\ pc' = IF o.raised # None THEN "crashed" ELSE "list"
    /\ UNCHANGED <<exit, now, keylist, pairIdx, pending, pkg, result, target, attempts, dirs, signalled, polled, workers, queue>>

\* builds: the key is picked anew before each poll; _pick_gpg_key never returns
\* None, so the ConfigurationError of line 246 is never raised and what
\* _pick_gpg_key raises leaves the generator and main
Builds ==
    /\ pc = "builds"
    /\ \E gpg_ok \in BOOLEAN :
         LET o == PickOutcome(gpg_ok) IN
         /\ calls' = Append(calls, PickEvent(o))
         /\ exc' = o.raised
         /\ pc' = IF o.raised # None THEN "crashed" ELSE "list"
    /\ UNCHANGED <<exit, now, keylist, pairIdx, pending, pkg, result, target, attempts, dirs, signalled, polled, workers, queue>>

\* _get_next_wb goes on to the next pair, or returns None after the last one
NextPair ==
    /\ pc' = IF pairIdx < NumPairs THEN "list" ELSE "yielded"
    /\ pairIdx' = IF pairIdx < NumPairs THEN pairIdx + 1 ELSE pairIdx
    /\ pkg' = None

\* _get_next_wb: --list=needs-build for the current pair
ListPending ==
    /\ pc = "list"
    /\ LET pair == PairAt(pairIdx)
           command == <<"--list=needs-build">>
       IN \/ /\ calls' = Append(calls, WB(pair.arch, pair.dist, command, FALSE, <<>>))
             /\ exc' = Some("CalledProcessError")
             /\ pc' = "crashed"
             /\ UNCHANGED <<pairIdx, pending, pkg>>
          \/ \E response \in ListResponses :
               LET lines == SplitAll(response, "\n") IN
               /\ calls' = Append(calls, WB(pair.arch, pair.dist, command, TRUE, response))
               /\ exc' = exc
               /\ IF lines[1] = <<>>
                  THEN NextPair /\ pending' = pending
                  ELSE pc' = "take" /\ pending' = lines[1] /\ UNCHANGED <<pairIdx, pkg>>
    /\ UNCHANGED <<exit, now, keylist, result, target, attempts, dirs, signalled, polled, workers, queue>>

\* TakeLost raising instead of going on
TakeLost_Raises ==
    /\ pc' = "crashed"
    /\ pairIdx' = pairIdx
    /\ pkg' = None

\* _get_next_wb after a take that returned None: the loops go on
TakeLost == NextPair

\* Take after which the loops go on although a package was taken
Take_KeepsPolling ==
    /\ pc = "take"
    /\ LET archdistpkgver == ArchDistPkgVer(pending)
           parts == Split(archdistpkgver, "/", 3)
           command == <<"--take", archdistpkgver>>
       IN \E i \in DOMAIN TakeResponses :
            LET taken == _parse_take_response(TakeResponses[i]) IN
            /\ calls' = Append(calls, WB(parts[1], parts[2], command, TRUE, TakeResponses[i]))
            /\ exc' = exc
            /\ pc' = IF pairIdx < NumPairs THEN "list" ELSE "yielded"
            /\ pairIdx' = IF pairIdx < NumPairs THEN pairIdx + 1 ELSE pairIdx
            /\ pkg' = taken
    /\ UNCHANGED <<exit, now, keylist, pending, result, target, attempts, dirs, signalled, polled, workers, queue>>

\* _take on pending[0], and the rest of the loop body of _get_next_wb
Take ==
    /\ pc = "take"
    /\ LET archdistpkgver == ArchDistPkgVer(pending)
           parts == Split(archdistpkgver, "/", 3)
           command == <<"--take", archdistpkgver>>
       IN \/ /\ calls' = Append(calls, WB(parts[1], parts[2], command, FALSE, <<>>))
             /\ exc' = Some("CalledProcessError")
             /\ pc' = "crashed"
             /\ UNCHANGED <<pairIdx, pkg>>
          \/ \E i \in DOMAIN TakeResponses :
               LET taken == _parse_take_response(TakeResponses[i]) IN
               /\ calls' = Append(calls, WB(parts[1], parts[2], command, TRUE, TakeResponses[i]))
               /\ exc' = exc
               /\ IF taken = None
                  THEN TakeLost
                  ELSE pc' = "yielded" /\ pkg' = taken /\ pairIdx' = pairIdx
    /\ UNCHANGED <<exit, now, keylist, pending, result, target, attempts, dirs, signalled, polled, workers, queue>>

\* Yielded that waits without looking at the flag
Yielded_AlwaysWaits ==
    /\ pc = "yielded"
    /\ pc' = IF pkg # None THEN "build" ELSE "waiting"
    /\ UNCHANGED <<exit, now, keylist, pairIdx, pending, pkg, result, target, attempts, exc, dirs, calls, signalled, polled, workers, queue>>

\* main with the value of next(pkgs): idle when it is None, else build
Yielded ==
    /\ pc = "yielded"
    /\ pc' = IF pkg # None THEN "build"
             ELSE IF ~ExitIsSet THEN "waiting" ELSE "top"
    /\ UNCHANGED <<exit, now, keylist, pairIdx, pending, pkg, result, target, attempts, exc, dirs, calls, signalled, polled, workers, queue>>

\* seconds main stays idle after a poll without a package
idle_sleep_time == 60

\* WaitReturns after which main polls again without looking at the flag
WaitReturns_PollsAgain ==
    /\ pc = "waiting"
    /\ \/ exit /\ calls' = <<>>
       \/ calls' = <<>>
    /\ pc' = "builds"
    /\ UNCHANGED <<exit, now, keylist, pairIdx, pending, pkg, result, target, attempts, exc, dirs, signalled, polled, workers, queue>>

\* exit.wait(idle_sleep_time) returns: the flag was set, or the time is up
WaitReturns ==
    /\ pc = "waiting"
    /\ \/ exit /\ calls' = Append(calls, [op |-> "wait", timeout |-> idle_sleep_time, woken |-> TRUE])
       \/ calls' = Append(calls, [op |-> "wait", timeout |-> idle_sleep_time, woken |-> FALSE])
    /\ pc' = "top"
    /\ UNCHANGED <<exit, now, keylist, pairIdx, pending, pkg, result, target, attempts, exc, dirs, signalled, polled, workers, queue>>

(* ---------------------------------------------------------------------- *)
(* Builder.build, Builder.upload, Builder.cleanup                          *)
(* ---------------------------------------------------------------------- *)

\* the package main is handling
Pkg == The(pkg)

\* build up to the sbuild command: the directory is made, a key is picked
Build ==
    /\ pc = "build"
    /\ dirs' = dirs \cup {_build_dir(Pkg)}
    /\ \E gpg_ok \in BOOLEAN :
         LET o == PickOutcome(gpg_ok) IN
         /\ calls' = calls \o <<[op |-> "makedirs", dir |-> _build_dir(Pkg)], PickEvent(o)>>
         /\ exc' = o.raised
         /\ pc' = IF o.raised # None THEN "cleanup" ELSE "sbuild"
    /\ UNCHANGED <<exit, now, keylist, pairIdx, pending, pkg, result, target, attempts, signalled, polled, workers, queue>>

\* build: sbuild runs in the build directory and its exit status is classified
RunSbuild ==
    /\ pc = "sbuild"
    /\ \E rc \in ReturnCodes :
         /\ calls' = Append(calls, [op |-> "sbuild", cwd |-> _build_dir(Pkg), rc |-> rc,
                                    cmd |-> _construct_sbuild_cmd(Pkg, The(calls[Len(calls)].key))])
         /\ result' = BuildResult(rc)
    /\ pc' = "verdict"
    /\ UNCHANGED <<exit, now, keylist, pairIdx, pending, pkg, target, attempts, exc, dirs, signalled, polled, workers, queue>>

\* Report with the source version in place of the binary version
Report_SourceVersion(verdict, ok) ==
    WB(Pkg.architecture, Pkg.distribution,
       <<"--" \o verdict, Pkg.source_package_version>>, ok, <<>>)

\* a report to wanna-build about the package
Report(verdict, ok) ==
    WB(Pkg.architecture, Pkg.distribution,
       <<"--" \o verdict, Pkg.source_package_binary_version>>, ok, <<>>)

\* ReportVerdict that gives up the upload once the flag is set
ReportVerdict_ChecksExit ==
    /\ pc = "verdict"
    /\ \E ok \in BOOLEAN :
         /\ calls' = Append(calls, Report(result, ok))
         /\ exc' = IF ok THEN exc ELSE Some("CalledProcessError")
         /\ pc' = IF ~ok THEN "cleanup"
                  ELSE IF BuildReturns(result) /\ ~ExitIsSet THEN "upload" ELSE "cleanup"
    /\ UNCHANGED <<exit, now, keylist, pairIdx, pending, pkg, result, target, attempts, dirs, signalled, polled, workers, queue>>

\* build: the verdict is reported; main goes on to upload when build returns True
ReportVerdict ==
    /\ pc = "verdict"
    /\ \E ok \in BOOLEAN :
         /\ calls' = Append(calls, Report(result, ok))
         /\ exc' = IF ok THEN exc ELSE Some("CalledProcessError")
         /\ pc' = IF ~ok THEN "cleanup"
                  ELSE IF BuildReturns(result) THEN "upload" ELSE "cleanup"
    /\ UNCHANGED <<exit, now, keylist, pairIdx, pending, pkg, result, target, attempts, dirs, signalled, polled, workers, queue>>

\* pkg.archive in _ARCHIVE_TO_DUPLOAD_TARGET
ArchiveMapped(archive) == archive \in DOMAIN _ARCHIVE_TO_DUPLOAD_TARGET

\* Upload that falls back to a default target for an unmapped archive
Upload_DefaultTarget ==
    /\ pc = "upload"
    /\ calls' = Append(calls, [op |-> "upload", mapped |-> ArchiveMapped(Pkg.archive)])
    /\ pc' = "dupload"
    /\ exc' = exc
    /\ target' = IF ArchiveMapped(Pkg.archive)
                 THEN _ARCHIVE_TO_DUPLOAD_TARGET[Pkg.archive] ELSE "rsync-ftp-master"
    /\ attempts' = 0
    /\ UNCHANGED <<exit, now, keylist, pairIdx, pending, pkg, result, dirs, signalled, polled, workers, queue>>

\* upload up to the try: the lookup of an unmapped archive raises KeyError
Upload ==
    /\ pc = "upload"
    /\ calls' = Append(calls, [op |-> "upload", mapped |-> ArchiveMapped(Pkg.archive)])
    /\ IF ArchiveMapped(Pkg.archive)
       THEN pc' = "dupload" /\ exc' = exc /\ target' = _ARCHIVE_TO_DUPLOAD_TARGET[Pkg.archive]
       ELSE pc' = "cleanup" /\ exc' = Some("KeyError") /\ target' = target
    /\ attempts' = 0
    /\ UNCHANGED <<exit, now, keylist, pairIdx, pending, pkg, result, dirs, signalled, polled, workers, queue>>

\* one attempt of _run_dupload under retrying
RunDupload ==
    /\ pc = "dupload"
    /\ attempts' = attempts + 1
    /\ \E ok \in BOOLEAN :
         /\ calls' = Append(calls, [op |-> "dupload", ok |-> ok,
                                    target |-> target,
                                    cwd |-> _build_dir(Pkg), filename |-> Pkg.changes_file])
         /\ pc' = IF ok THEN "uploaded"
                  ELSE IF RetryStops(attempts') THEN "giveback" ELSE "backoff"
         /\ exc' = IF ~ok /\ RetryStops(attempts') THEN Some("CalledProcessError") ELSE exc
    /\ UNCHANGED <<exit, now, keylist, pairIdx, pending, pkg, result, target, dirs, signalled, polled, workers, queue>>

\* retrying sleeps wait_fixed before the next attempt
Backoff ==
    /\ pc = "backoff"
    /\ calls' = Append(calls, [op |-> "sleep", minutes |-> wait_fixed])
    /\ pc' = "dupload"
    /\ UNCHANGED <<exit, now, keylist, pairIdx, pending, pkg, result, target, attempts, exc, dirs, signalled, polled, workers, queue>>

\* upload after _run_dupload returned: --uploaded; its failure is caught by
\* the except clause of upload as well
ReportUploaded ==
    /\ pc = "uploaded"
    /\ \E ok \in BOOLEAN :
         /\ calls' = Append(calls, Report("uploaded", ok))
         /\ exc' = IF ok THEN exc ELSE Some("CalledProcessError")
         /\ pc' = IF ok THEN "cleanup" ELSE "giveback"
    /\ UNCHANGED <<exit, now, keylist, pairIdx, pending, pkg, result, target, attempts, dirs, signalled, polled, workers, queue>>

\* ReportGiveBack that does not raise the exception again
ReportGiveBack_Swallows ==
    /\ pc = "giveback"
    /\ \E ok \in BOOLEAN :
         /\ calls' = Append(calls, Report("give-back", ok))
         /\ exc' = None
    /\ pc' = "cleanup"
    /\ UNCHANGED <<exit, now, keylist, pairIdx, pending, pkg, result, target, attempts, dirs, signalled, polled, workers, queue>>

\* the except clause of upload: --give-back, then the exception is raised again
ReportGiveBack ==
    /\ pc = "giveback"
    /\ \E ok \in BOOLEAN :
         /\ calls' = Append(calls, Report("give-back", ok))
         /\ exc' = IF ok THEN exc ELSE Some("CalledProcessError")
    /\ pc' = "cleanup"
    /\ UNCHANGED <<exit, now, keylist, pairIdx, pending, pkg, result, target, attempts, dirs, signalled, polled, workers, queue>>

\* cleanup that names the directory after the binary version
cleanup_BinaryVersion(existing, p) ==
    existing \ {p.source_package \o <<"_">> \o p.epochless_binary_version}

\* cleanup: the build directory is removed when it exists
cleanup(existing, p) ==
    IF _build_dir(p) \in existing THEN existing \ {_build_dir(p)} ELSE existing

\* Cleanup after which main goes on whatever was raised
Cleanup_Continues ==
    /\ pc = "cleanup"
    /\ dirs' = cleanup(dirs, Pkg)
    /\ calls' = Append(calls, [op |-> "cleanup", dir |-> _build_dir(Pkg)])
    /\ pc' = "top"
    /\ UNCHANGED <<exit, now, keylist, pairIdx, pending, pkg, result, target, attempts, exc, signalled, polled, workers, queue>>

\* the finally clause of main; an exception in flight then leaves main
Cleanup ==
    /\ pc = "cleanup"
    /\ dirs' = cleanup(dirs, Pkg)
    /\ calls' = Append(calls, [op |-> "cleanup", dir |-> _build_dir(Pkg)])
    /\ pc' = IF exc # None THEN "crashed" ELSE "top"
    /\ UNCHANGED <<exit, now, keylist, pairIdx, pending, pkg, result, target, attempts, exc, signalled, polled, workers, queue>>

Next ==
    \/ Signal
    \/ Tick
    \/ LoopTop
    \/ Builds
    \/ ListPending
    \/ Take
    \/ Yielded
    \/ WaitReturns
    \/ Build
    \/ RunSbuild
    \/ ReportVerdict
    \/ Upload
    \/ RunDupload
    \/ Backoff
    \/ ReportUploaded
    \/ ReportGiveBack
    \/ Cleanup

Spec == Init /\ [][Next]_vars

\* the steps of main itself: all but the signal and the passing of time
MainStep ==
    \/ LoopTop
    \/ Builds
    \/ ListPending
    \/ Take
    \/ Yielded
    \/ WaitReturns
    \/ Build
    \/ RunSbuild
    \/ ReportVerdict
    \/ Upload
    \/ RunDupload
    \/ Backoff
    \/ ReportUploaded
    \/ ReportGiveBack
    \/ Cleanup

\* main goes on as long as it can: every call of gpg, wanna-build, sbuild and
\* dupload returns, and so do the sleeps of retrying and the idle wait
LiveSpec == Spec /\ WF_vars(MainStep)

(* ---------------------------------------------------------------------- *)
(* Reading the record of an iteration                                      *)
(* ---------------------------------------------------------------------- *)

IsQuery(e, c) == e.op = "wb" /\ e.command[1] = c

IsList(e) == IsQuery(e, "--list=needs-build")

IsTake(e) == IsQuery(e, "--take")

IsReport(e) == e.op = "wb" /\ e.command[1] \in {"--built", "--attempted", "--give-back", "--uploaded"}

\* the status field of a take answer
TakeStatus(r) == LET d == r[2] IN d[CHOOSE i \in DOMAIN d : d[i].k = "status"].v

\* a take that wanna-build answered with a status other than ok
IsLostTake(e) == IsTake(e) /\ e.ok /\ TakeStatus(e.response) # "ok"

\* a take that wanna-build answered with status ok
IsWonTake(e) == IsTake(e) /\ e.ok /\ TakeStatus(e.response) = "ok"

\* a list that wanna-build answered with nothing pending
IsEmptyList(e) == IsList(e) /\ e.ok /\ e.response = <<>>

\* the first candidate of a list answer: its first line up to the first blank
FirstCandidate(response) == SubSeq(response, 1, Find(response, " ", 1) - 1)

\* the list and take calls of the poll, in order
PollCalls == SelectSeq(calls, LAMBDA e : IsList(e) \/ IsTake(e))

\* the positions of calls that satisfy Test
Where(Test(_)) == {i \in DOMAIN calls : Test(calls[i])}

\* the pairs in configured order, distributions outside, architectures inside
ExpectedPairs ==
    << <<"sid", "amd64">>, <<"sid", "i386">>,
       <<"experimental", "amd64">>, <<"experimental", "i386">> >>

(* ---------------------------------------------------------------------- *)
(* Claims                                                                  *)
(* ---------------------------------------------------------------------- *)

\* C1: one poll lists the pairs in configured order, distributions outside and
\* architectures inside; an empty list skips the pair; a non-empty list is
\* followed by a take of its first candidate only; a lost take is followed by
\* the list of the next pair; nothing is listed or taken after a successful
\* take; the poll returns the job of the successful take, and it returns no job
\* only after all pairs were listed without a successful take.
C1_PollOrder ==
    LET P == PollCalls
        L == SelectSeq(P, IsList)
    IN /\ Len(L) <= Len(ExpectedPairs)
       /\ \A k \in DOMAIN L : <<L[k].dist, L[k].arch>> = ExpectedPairs[k]
       /\ \A i \in DOMAIN P :
            /\ IsTake(P[i]) =>
                 /\ i > 1
                 /\ IsList(P[i - 1]) /\ P[i - 1].ok /\ ~IsEmptyList(P[i - 1])
                 /\ P[i].command[2] = FirstCandidate(P[i - 1].response)
            /\ (IsList(P[i]) /\ i > 1) => (IsEmptyList(P[i - 1]) \/ IsLostTake(P[i - 1]))
       /\ (pc = "yielded" /\ pkg = None) =>
            /\ Len(L) = Len(ExpectedPairs)
            /\ \A i \in DOMAIN P : ~IsWonTake(P[i])
            /\ IsEmptyList(P[Len(P)]) \/ IsLostTake(P[Len(P)])
       /\ (pc = "yielded" /\ pkg # None) =>
            /\ Len(P) > 0
            /\ IsWonTake(P[Len(P)])
            /\ The(pkg).name = P[Len(P)].response[1]
       /\ pc = "take" => (Len(P) > 0 /\ IsList(P[Len(P)]) /\ ~IsEmptyList(P[Len(P)]))

\* a poll that skipped an empty pair, lost a take and then won one
C1_Witness ==
    /\ pc = "yielded"
    /\ pkg # None
    /\ \E i \in DOMAIN PollCalls : IsEmptyList(PollCalls[i])
    /\ \E i \in DOMAIN PollCalls : IsLostTake(PollCalls[i])
    /\ Len(SelectSeq(PollCalls, IsList)) = 3

\* what main does with a package: build, upload, report, cleanup
HandlesPackage(e) ==
    \/ e.op \in {"makedirs", "sbuild", "upload", "dupload", "sleep", "cleanup"}
    \/ IsReport(e)

\* C2: a take answered with a status other than ok yields no job and raises no
\* error, and nothing is built, uploaded, reported or cleaned up on account of
\* it: whatever main does with a package follows a take answered with ok, and
\* is done for the package of that answer.
C2_LostTake ==
    /\ (calls # <<>> /\ IsLostTake(calls[Len(calls)])) =>
         /\ pkg = None
         /\ exc = None
         /\ pc \in {"list", "yielded", "waiting", "top"}
    /\ \A i \in DOMAIN calls :
         HandlesPackage(calls[i]) =>
           \E j \in 1..(i - 1) :
             /\ IsWonTake(calls[j])
             /\ \A k \in (j + 1)..(i - 1) : ~IsTake(calls[k]) /\ ~IsList(calls[k])
             /\ pkg # None
             /\ The(pkg).name = calls[j].response[1]
    /\ pc \in {"build", "sbuild", "verdict", "upload", "dupload", "backoff", "uploaded",
               "giveback", "cleanup"} =>
         (pkg # None /\ \E j \in DOMAIN calls : IsWonTake(calls[j]))

\* the poll went on after a lost take and the iteration ended with no job
C2_Witness ==
    /\ pc = "waiting"
    /\ \E i \in DOMAIN calls : IsLostTake(calls[i])
    /\ Len(SelectSeq(calls, IsLostTake)) = 4

\* the verdict that belongs to an exit status of sbuild
ExpectedVerdict(rc) == CASE rc = 0 -> "--built" [] rc = 2 -> "--attempted" [] OTHER -> "--give-back"

\* a report about the package in hand: its architecture, its distribution and
\* <source_package>_<binary_version>
CarriesJob(e) ==
    /\ e.arch = The(pkg).architecture
    /\ e.dist = The(pkg).distribution
    /\ e.command[2] = The(pkg).source_package \o <<"_">> \o The(pkg).binary_version

IsSbuild(e) == e.op = "sbuild"

IsUpload(e) == e.op = "upload"

IsDupload(e) == e.op = "dupload"

IsFailedDupload(e) == e.op = "dupload" /\ ~e.ok

IsSleep(e) == e.op = "sleep"

IsCleanup(e) == e.op = "cleanup"

IsMakedirs(e) == e.op = "makedirs"

\* sbuild exited with 0 and --built was reported without a failure
BuiltAndReported ==
    \E i \in DOMAIN calls :
      /\ IsSbuild(calls[i]) /\ calls[i].rc = 0
      /\ i < Len(calls) /\ IsQuery(calls[i + 1], "--built") /\ calls[i + 1].ok

\* build and upload of the iteration are over
AfterJob == pc \in {"cleanup", "crashed", "top"} /\ pkg # None

\* C3 as stated: upload is invoked in an iteration if and only if sbuild exited
\* with 0 in that iteration.
C3_UploadIffBuilt ==
    AfterJob =>
      ((\E i \in DOMAIN calls : IsSbuild(calls[i]) /\ calls[i].rc = 0)
         <=> (\E i \in DOMAIN calls : IsUpload(calls[i])))

\* C3 (amended): exit status 0 is reported as built, 2 as attempted, any other
\* as give-back; upload is invoked in an iteration if and only if sbuild exited
\* with 0 and the report of built did not fail.
C3_OutcomeMapping ==
    /\ \A i \in DOMAIN calls :
         IsSbuild(calls[i]) =>
           /\ i = Len(calls) => (pc = "verdict" /\ "--" \o result = ExpectedVerdict(calls[i].rc))
           /\ i < Len(calls) =>
                /\ IsQuery(calls[i + 1], ExpectedVerdict(calls[i].rc))
                /\ CarriesJob(calls[i + 1])
    /\ \A i \in DOMAIN calls :
         IsUpload(calls[i]) =>
           /\ i > 2
           /\ IsQuery(calls[i - 1], "--built") /\ calls[i - 1].ok
           /\ IsSbuild(calls[i - 2]) /\ calls[i - 2].rc = 0
    /\ AfterJob => (BuiltAndReported <=> \E i \in DOMAIN calls : IsUpload(calls[i]))

\* sbuild exited with 0, the report of built failed, and upload was not invoked
C3_Witness ==
    /\ pc = "cleanup"
    /\ \E i \in DOMAIN calls : IsSbuild(calls[i]) /\ calls[i].rc = 0
    /\ ~BuiltAndReported
    /\ \A i \in DOMAIN calls : ~IsUpload(calls[i])

\* the verdicts build reported: the reports that follow the run of sbuild
BuildVerdicts ==
    {i \in DOMAIN calls :
       /\ i > 1
       /\ IsSbuild(calls[i - 1])
       /\ calls[i].op = "wb"
       /\ calls[i].command[1] \in {"--built", "--attempted", "--give-back"}}

\* C4: a job that was taken is reported with exactly one build verdict, which
\* carries its architecture, distribution and <source_package>_<binary_version>,
\* before it is cleaned up.
C4_EveryTakenJobReported ==
    pc = "cleanup" =>
      /\ Cardinality(BuildVerdicts) = 1
      /\ \A i \in BuildVerdicts : CarriesJob(calls[i])

\* C5: the build directory of a job handed to build is removed on every way out
\* of the iteration, before the next iteration or the end of main: while main
\* polls, idles or has ended, no build directory exists, and an iteration that
\* made a directory ended with cleanup of that directory.
C5_CleanupAlways ==
    /\ pc \in {"top", "builds", "list", "take", "yielded", "waiting", "exited", "crashed"}
         => dirs = {}
    /\ (pc \in {"top", "crashed"} /\ \E i \in DOMAIN calls : IsMakedirs(calls[i])) =>
         /\ IsCleanup(calls[Len(calls)])
         /\ \A i \in DOMAIN calls : IsMakedirs(calls[i]) => calls[i].dir = calls[Len(calls)].dir
    /\ \A i \in DOMAIN calls : IsSbuild(calls[i]) => \E j \in 1..(i - 1) : IsMakedirs(calls[j])

\* upload raised, and the directory of a rebuilt package is gone when main ends
C5_Witness ==
    /\ pc = "crashed"
    /\ pkg # None
    /\ The(pkg).binnmu # None
    /\ \E i \in DOMAIN calls : IsFailedDupload(calls[i])
    /\ dirs = {}

\* C6: one upload to a mapped archive runs dupload at least once and at most 3
\* times; an attempt is made only after all earlier attempts failed; a wait of
\* the fixed time lies between two attempts and none follows the last one.
C6_BoundedRetry ==
    LET D == Where(IsDupload)
        S == Where(IsSleep)
    IN /\ Cardinality(D) <= 3
       /\ Cardinality(S) <= 2
       /\ \A i \in D : \A j \in D : i < j => ~calls[i].ok
       /\ \A i \in D :
            /\ \E j \in 1..(i - 1) : IsUpload(calls[j]) /\ calls[j].mapped
            /\ (\E j \in D : j < i) =>
                 (i > 2 /\ IsSleep(calls[i - 1]) /\ IsFailedDupload(calls[i - 2]))
       /\ \A i \in S :
            /\ i > 1 /\ IsFailedDupload(calls[i - 1])
            /\ calls[i].minutes = 2
            /\ i < Len(calls) => IsDupload(calls[i + 1])
            /\ i = Len(calls) => pc = "dupload"
       /\ ((\E i \in DOMAIN calls : IsUpload(calls[i]) /\ calls[i].mapped) /\ pc # "dupload")
            => D # {}

\* three attempts were made and all failed
C6_Witness ==
    /\ pc = "giveback"
    /\ Cardinality(Where(IsFailedDupload)) = 3
    /\ Cardinality(Where(IsSleep)) = 2

\* C7: when all 3 attempts of dupload failed, upload reports give-back for the
\* job, reports no uploaded, and raises to main, which still cleans up and
\* then ends with that failure.
C7_UploadExhausted ==
    (Cardinality(Where(IsFailedDupload)) = 3 /\ pc \notin {"giveback"}) =>
      /\ pc \in {"cleanup", "crashed"}
      /\ exc # None
      /\ \E i \in DOMAIN calls :
           /\ IsQuery(calls[i], "--give-back")
           /\ CarriesJob(calls[i])
           /\ \A j \in Where(IsDupload) : j < i
      /\ \A i \in DOMAIN calls : ~IsQuery(calls[i], "--uploaded")
      /\ pc = "crashed" => (IsCleanup(calls[Len(calls)]) /\ dirs = {})

\* all attempts failed, give-back was reported and main ended after cleanup
C7_Witness ==
    /\ pc = "crashed"
    /\ Cardinality(Where(IsFailedDupload)) = 3
    /\ IsCleanup(calls[Len(calls)])

\* C8: after an attempt of dupload succeeded, upload reports uploaded with the
\* architecture, distribution and <source_package>_<binary_version> of the job;
\* uploaded is reported only right after a successful attempt.
C8_Uploaded ==
    /\ \A i \in DOMAIN calls :
         IsQuery(calls[i], "--uploaded") =>
           /\ i > 1
           /\ IsDupload(calls[i - 1]) /\ calls[i - 1].ok
           /\ CarriesJob(calls[i])
    /\ \A i \in DOMAIN calls :
         (IsDupload(calls[i]) /\ calls[i].ok) =>
           /\ i = Len(calls) => pc = "uploaded"
           /\ i < Len(calls) => IsQuery(calls[i + 1], "--uploaded")

\* a rebuilt package was uploaded at the second attempt and reported
C8_Witness ==
    /\ pc = "cleanup"
    /\ pkg # None
    /\ The(pkg).binnmu # None
    /\ Cardinality(Where(IsDupload)) = 2
    /\ \E i \in DOMAIN calls : IsQuery(calls[i], "--uploaded") /\ calls[i].ok

\* the archives of the mapping
MappedArchives == {"debian", "debian-security", "debian-ports"}

\* C9: upload of a job whose archive is not in the mapping fails without a
\* single run of dupload and without a wait.
C9_UnmappedArchive ==
    ((\E i \in DOMAIN calls : IsUpload(calls[i])) /\ The(pkg).archive \notin MappedArchives) =>
      /\ \A i \in DOMAIN calls : ~IsDupload(calls[i]) /\ ~IsSleep(calls[i])
      /\ exc = Some("KeyError")
      /\ pc \in {"cleanup", "crashed"}

\* upload of a job for an unmapped archive raised and main ended
C9_Witness ==
    /\ pc = "crashed"
    /\ pkg # None
    /\ The(pkg).archive \notin MappedArchives
    /\ \E i \in DOMAIN calls : IsUpload(calls[i])

\* C10: when the flag is set at the top of the loop, main ends in that
\* iteration: no key is picked, nothing is listed or taken, nothing is built,
\* uploaded or cleaned up.
C10_ExitAtTop ==
    /\ [](pc = "exited" => (exit /\ calls = <<>>))
    /\ [][(pc = "top" /\ exit /\ pc' # pc) =>
            (pc' = "exited" /\ calls' = <<>> /\ dirs' = dirs /\ exc' = exc)]_vars

\* main ended at the top of the loop with the flag set, having done nothing
C10_Witness ==
    /\ pc = "exited"
    /\ exit
    /\ pkg = None
    /\ calls = <<>>

(* ---------------------------------------------------------------------- *)
(* The flag during a job, and the idle wait                                *)
(* ---------------------------------------------------------------------- *)

Last(s) == s[Len(s)]

\* where the handling of a job goes from position p once it recorded e, made
\* n attempts of dupload and has the exception x in flight; the flag is not
\* among what decides it
JobNext(p, e, n, x) ==
    CASE p = "build" -> IF e.raised # None THEN "cleanup" ELSE "sbuild"
      [] p = "sbuild" -> "verdict"
      [] p = "verdict" -> IF e.ok /\ e.command[1] = "--built" THEN "upload" ELSE "cleanup"
      [] p = "upload" -> IF e.mapped THEN "dupload" ELSE "cleanup"
      [] p = "dupload" -> IF e.ok THEN "uploaded"
                          ELSE IF n >= stop_max_attempt_number THEN "giveback" ELSE "backoff"
      [] p = "backoff" -> "dupload"
      [] p = "uploaded" -> IF e.ok THEN "cleanup" ELSE "giveback"
      [] p = "giveback" -> "cleanup"
      [] p = "cleanup" -> IF x # None THEN "crashed" ELSE "top"

\* C11: once build has started, each step of the handling of the job (build,
\* verdict report, upload, cleanup) goes where the outcome of that step alone
\* sends it, whether or not the flag is set, and leaves the flag as it is;
\* main ends on the flag only from the top of the loop.
C11_FlagNotActedOnInJob ==
    /\ [][(pc \in JobPcs /\ pc' # pc) =>
            /\ Len(calls') > Len(calls)
            /\ pc' = JobNext(pc, Last(calls'), attempts', exc')
            /\ exit' = exit]_vars
    /\ [][(pc' = "exited" /\ pc # "exited") => (pc = "top" /\ exit)]_vars

\* the flag was set while the job was handled, and the job was still built,
\* reported, uploaded, reported as uploaded and cleaned up
C11_Witness ==
    /\ pc = "top"
    /\ exit
    /\ signalled = "job"
    /\ \E i \in DOMAIN calls : IsSbuild(calls[i]) /\ calls[i].rc = 0
    /\ \E i \in DOMAIN calls : IsQuery(calls[i], "--uploaded") /\ calls[i].ok
    /\ IsCleanup(Last(calls))

IsWait(e) == e.op = "wait"

\* C12: after a poll that returned no package nothing is built, uploaded or
\* cleaned up; main then waits when the flag is not set and does not wait
\* when it is; the wait is for idle_sleep_time, ends early only on the flag,
\* and the next poll starts only after it returned.
C12_IdleWait ==
    /\ [](pkg = None => \A i \in DOMAIN calls : ~HandlesPackage(calls[i]))
    /\ [](\A i \in DOMAIN calls :
            IsWait(calls[i]) =>
              /\ i = Len(calls)
              /\ pc = "top"
              /\ pkg = None
              /\ calls[i].timeout = idle_sleep_time
              /\ calls[i].woken => exit)
    /\ [](pc = "waiting" => (pkg = None /\ ~IsWait(Last(calls))))
    /\ [][(pc = "yielded" /\ pkg = None /\ pc' # pc) =>
            /\ calls' = calls
            /\ pc' = IF exit THEN "top" ELSE "waiting"]_vars
    /\ [][(pc = "waiting" /\ pc' # pc) => (pc' = "top" /\ IsWait(Last(calls')))]_vars

\* the flag was set while main waited, and the wait ended on it
C12_Witness ==
    /\ pc = "top"
    /\ signalled = "wait"
    /\ calls # <<>>
    /\ IsWait(Last(calls))
    /\ Last(calls).woken

(* ---------------------------------------------------------------------- *)
(* _pick_gpg_key on its own                                                *)
(* ---------------------------------------------------------------------- *)

\* the most lines of a key listing
MaxLines == 3

KeyIds == {"B424EB74051F4844", "DFE4C0B481F37BDB", "135DC390E4032D36"}

\* expiry times, in hours: less than, exactly and more than the margin at hour 0
Expiries == {ExpiryMargin - 1, ExpiryMargin, ExpiryMargin + 1}

Addresses == {"old@example.com", "buildd@example.com"}

ListingLines ==
    {SecLine(k, e) : k \in KeyIds, e \in Expiries} \cup {UidLine(a) : a \in Addresses}
      \cup {OtherLine}

IsSec(line) == line.type = "sec"

\* gpg lists a secret key once
DistinctKeys(listing) ==
    \A i, j \in DOMAIN listing :
      (i # j /\ IsSec(listing[i]) /\ IsSec(listing[j])) => listing[i].keyid # listing[j].keyid

\* the listings _pick_gpg_key is given
Listings ==
    {l \in UNION {[1..n -> ListingLines] : n \in 0..MaxLines} : DistinctKeys(l)}

KeyInit ==
    /\ pc = "pick"
    /\ keylist \in Listings
    /\ now \in 0..MaxTime
    /\ exit = FALSE
    /\ pairIdx = 1
    /\ pending = <<>>
    /\ pkg = None
    /\ result = ""
    /\ target = ""
    /\ attempts = 0
    /\ exc = None
    /\ dirs = {}
    /\ calls = <<>>
    /\ signalled = ""
    /\ polled = FALSE
    /\ workers = <<>>
    /\ queue = <<>>

\* _pick_gpg_key(keylist) at time now: it returns a key or raises
KeyPick ==
    /\ pc = "pick"
    /\ LET o == PickOutcome(TRUE) IN
       /\ calls' = <<PickEvent(o)>>
       /\ exc' = o.raised
    /\ pc' = "picked"
    /\ UNCHANGED <<exit, now, keylist, pairIdx, pending, pkg, result, target, attempts, dirs, signalled, polled, workers, queue>>

KeyNext == KeyPick

KeySpec == KeyInit /\ [][KeyNext]_vars

\* the sec: lines whose key has at least the margin left at the current time
Qualifying ==
    {i \in DOMAIN keylist : IsSec(keylist[i]) /\ keylist[i].expires - now >= ExpiryMargin}

\* C13: _pick_gpg_key raises KeyNotFoundError exactly when no key has at
\* least 24 hours left; otherwise it returns a key with at least 24 hours left
\* (exactly 24 hours qualifies) whose remaining lifetime is the least among
\* those keys, and the expiry it returns is that remaining lifetime.
C13_KeySelection ==
    pc = "picked" =>
      LET e == calls[1] IN
      /\ (e.raised = Some("KeyNotFoundError")) <=> (Qualifying = {})
      /\ (e.raised = None) <=> (Qualifying # {})
      /\ Qualifying # {} =>
           \E i \in Qualifying :
             /\ The(e.key).keyid = keylist[i].keyid
             /\ The(e.key).expiry = keylist[i].expires - now
             /\ The(e.key).expiry >= ExpiryMargin
             /\ \A j \in Qualifying : keylist[j].expires - now >= The(e.key).expiry

\* of three keys one has less than 24 hours left, one exactly 24 and one
\* more: the one with exactly 24 hours is returned
C13_Witness ==
    /\ pc = "picked"
    /\ Cardinality(Qualifying) = 2
    /\ \E i \in DOMAIN keylist : IsSec(keylist[i]) /\ i \notin Qualifying
    /\ calls[1].raised = None
    /\ The(calls[1].key).expiry = ExpiryMargin
    /\ \E j \in Qualifying : keylist[j].expires - now > ExpiryMargin

(* ---------------------------------------------------------------------- *)
(* The key check of each iteration                                         *)
(* ---------------------------------------------------------------------- *)

IsPick(e) == e.op = "pick_gpg_key"

\* C14: every iteration of the loop that does not end on the flag picks the
\* key first, against the listing and the time of that moment: when no key
\* has 24 hours left then (also after an earlier iteration found one), main
\* ends without a list or take call and without a job; a list or take call is
\* only ever made after the pick of the same iteration returned a key.
C14_KeyCheckedEachCycle ==
    /\ [][(pc = "top" /\ pc' # pc /\ ~exit) => (pc' = "builds" /\ calls' = <<>>)]_vars
    /\ [][(pc = "builds" /\ pc' # pc) =>
            /\ Len(calls') = 1
            /\ IsPick(calls'[1])
            /\ (Qualifying = {}) => (calls'[1].raised # None /\ pc' = "crashed" /\ pkg' = None)
            /\ (calls'[1].raised = None) =>
                 /\ pc' = "list"
                 /\ \E i \in Qualifying :
                      The(calls'[1].key).expiry = keylist[i].expires - now]_vars
    /\ [](\A i \in DOMAIN calls :
            (IsList(calls[i]) \/ IsTake(calls[i])) =>
              (i > 1 /\ IsPick(calls[1]) /\ calls[1].raised = None))

\* an earlier iteration found a key and polled; in this one no key has 24
\* hours left and main ended without a list or take call and without a job
C14_Witness ==
    /\ pc = "crashed"
    /\ polled
    /\ Qualifying = {}
    /\ Len(calls) = 1
    /\ IsPick(calls[1])
    /\ calls[1].raised = Some("KeyNotFoundError")
    /\ pkg = None

\* C15: when the key check of an iteration finds no valid key, the exception
\* that ends main is a ConfigurationError.
C15_ConfigurationError ==
    (pc = "crashed" /\ Len(calls) = 1 /\ IsPick(calls[1]) /\ Qualifying = {}
       /\ calls[1].raised # Some("CalledProcessError")) =>
      exc = Some("ConfigurationError")

(* ---------------------------------------------------------------------- *)
(* Failures                                                                *)
(* ---------------------------------------------------------------------- *)

FailedQuery(e) == e.op = "wb" /\ ~e.ok

\* C16: after a call of wanna-build failed, no call of wanna-build is made
\* any more and nothing is listed, taken, built or uploaded: main is on its
\* way out with a CalledProcessError, at once when no job was taken and
\* through the cleanup of main otherwise.
C16_QueueFailureEndsMain ==
    \A i \in DOMAIN calls :
      FailedQuery(calls[i]) =>
        /\ exc = Some("CalledProcessError")
        /\ pc \in {"cleanup", "crashed"}
        /\ \A j \in DOMAIN calls : j > i => IsCleanup(calls[j])
        /\ (IsList(calls[i]) \/ IsTake(calls[i])) =>
             (i = Len(calls) /\ pc = "crashed" /\ pkg = None)
        /\ (IsReport(calls[i]) /\ pc = "crashed") => IsCleanup(Last(calls))

\* main is handling a package: build(pkg) was entered
JobInFlight == \E i \in DOMAIN calls : IsMakedirs(calls[i])

\* C17 as stated: after the cleanup of a job main is back at the top of the
\* loop, whether or not build or upload raised.
C17_ReturnsToIdle ==
    (JobInFlight /\ IsCleanup(Last(calls))) => pc = "top"

\* C17, amended: when build or upload raised, main does nothing but the
\* give-back of upload's except clause and the cleanup, and then ends with
\* that exception, the directory removed; main is at the top of the loop
\* only with no exception in flight.
C17_CleanupThenPropagates ==
    /\ pc = "top" => exc = None
    /\ exc # None => pc \in {"giveback", "cleanup", "crashed"}
    /\ (JobInFlight /\ IsCleanup(Last(calls))) =>
         /\ pc = IF exc # None THEN "crashed" ELSE "top"
         /\ _build_dir(Pkg) \notin dirs
    /\ (JobInFlight /\ pc = "crashed") => IsCleanup(Last(calls))

\* build raised before sbuild ran; the directory was cleaned up and main
\* ended with the exception
C17_Witness ==
    /\ pc = "crashed"
    /\ JobInFlight
    /\ exc # None
    /\ \A i \in DOMAIN calls : ~IsSbuild(calls[i])
    /\ IsCleanup(Last(calls))
    /\ _build_dir(Pkg) \notin dirs

(* ---------------------------------------------------------------------- *)
(* Package on its own                                                      *)
(* ---------------------------------------------------------------------- *)

\* the most tokens of an upstream version and revision
MaxVersionLen == 3

Epochs == {"1", "2"}

VersionTokens == {"0.04", ":", "-1"}

\* what follows the epoch: it neither starts nor ends with a colon
VersionBodies ==
    {b \in UNION {[1..n -> VersionTokens] : n \in 1..MaxVersionLen} :
       b[1] # ":" /\ b[Len(b)] # ":"}

\* Debian versions: [epoch:]upstream[-revision]; the upstream version may
\* hold colons only when there is an epoch
Versions ==
    {b \in VersionBodies : ~Contains(b, ":")}
      \cup {<<e, ":">> \o b : e \in Epochs, b \in VersionBodies}

\* binNMU of a take answer: absent, or a number from 1
BinNMUs == {None, Some(1), Some(2)}

\* a take answer with status ok for chasquid
PkgResponse(version, arch, binnmu) ==
    <<"chasquid",
      <<KV("status", "ok"), KV("pkg-ver", <<"chasquid", "_">> \o version),
        KV("suite", "sid"), KV("arch", arch), KV("archive", "debian")>>
        \o (IF binnmu # None THEN <<KV("binNMU", The(binnmu))>> ELSE <<>>)>>

PkgInit ==
    /\ pc = "taken"
    /\ pending \in {PkgResponse(v, a, n) : v \in Versions, a \in {"amd64", "all"}, n \in BinNMUs}
    /\ pkg = None
    /\ exit = FALSE
    /\ now = 0
    /\ keylist = <<>>
    /\ pairIdx = 1
    /\ result = ""
    /\ target = ""
    /\ attempts = 0
    /\ exc = None
    /\ dirs = {}
    /\ calls = <<>>
    /\ signalled = ""
    /\ polled = FALSE
    /\ workers = <<>>
    /\ queue = <<>>

\* _parse_take_response constructs the Package
Construct ==
    /\ pc = "taken"
    /\ pkg' = _parse_take_response(pending)
    /\ pc' = "constructed"
    /\ UNCHANGED <<exit, now, keylist, pairIdx, pending, result, target, attempts, exc, dirs, calls, signalled, polled, workers, queue>>

PkgNext == Construct

PkgSpec == PkgInit /\ [][PkgNext]_vars

\* the descriptor of the take answer, as a mapping
Taken == Flatten(pending[2], 1, <<>>)

\* <version> of pkg-ver '<package>_<version>'
TakenVersion == SubSeq(Taken["pkg-ver"], 3, Len(Taken["pkg-ver"]))

\* v without its leading epoch 'N:'
WithoutEpoch(v) == IF Len(v) >= 2 /\ v[2] = ":" THEN SubSeq(v, 3, Len(v)) ELSE v

\* '+bN' when binNMU = N is set
BinNMUSuffix == IF "binNMU" \in DOMAIN Taken THEN <<"+b">> \o FormatInt(Taken["binNMU"]) ELSE <<>>

\* C18: Package derives source_version, epochless_source_version (the
\* leading epoch removed), binary_version and epochless_binary_version (with
\* '+bN' when binNMU = N is set) and changes_file from the take answer as
\* stated.
C18_Derivation ==
    pc = "constructed" =>
      LET p == The(pkg) IN
      /\ p.source_package = <<"chasquid">>
      /\ p.source_version = TakenVersion
      /\ p.epochless_source_version = WithoutEpoch(TakenVersion)
      /\ p.binary_version = TakenVersion \o BinNMUSuffix
      /\ p.epochless_binary_version = WithoutEpoch(TakenVersion) \o BinNMUSuffix
      /\ p.changes_file = <<"chasquid", "_">> \o WithoutEpoch(TakenVersion) \o BinNMUSuffix
                            \o <<"_", Taken["arch"], ".changes">>

(* ---------------------------------------------------------------------- *)
(* cleanup on its own                                                      *)
(* ---------------------------------------------------------------------- *)

\* the packages of the take answers
TakenPackages ==
    {_parse_take_response(TakeResponses[i]) : i \in DOMAIN TakeResponses} \ {None}

\* directories below ~/build: those of the packages and one of no package
BuildDirs == {_build_dir(The(p)) : p \in TakenPackages} \cup {<<"lost+found">>}

CleanupInit ==
    /\ pc = "clean_0"
    /\ pkg \in TakenPackages
    /\ dirs \in SUBSET BuildDirs
    /\ exit = FALSE
    /\ now = 0
    /\ keylist = <<>>
    /\ pairIdx = 1
    /\ pending = <<>>
    /\ result = ""
    /\ target = ""
    /\ attempts = 0
    /\ exc = None
    /\ calls = <<>>
    /\ signalled = ""
    /\ polled = FALSE
    /\ workers = <<>>
    /\ queue = <<>>

\* CleanupCall with rmtree not guarded by os.path.exists: it raises when the
\* directory is not there
CleanupCall_Unguarded ==
    /\ pc \in {"clean_0", "clean_1"}
    /\ dirs' = dirs \ {_build_dir(Pkg)}
    /\ exc' = IF _build_dir(Pkg) \in dirs THEN exc ELSE Some("FileNotFoundError")
    /\ pc' = IF pc = "clean_0" THEN "clean_1" ELSE "clean_2"
    /\ UNCHANGED <<exit, now, keylist, pairIdx, pending, pkg, result, target, attempts, calls, signalled, polled, workers, queue>>

\* builder.cleanup(pkg), called a first and a second time
CleanupCall ==
    /\ pc \in {"clean_0", "clean_1"}
    /\ dirs' = cleanup(dirs, Pkg)
    /\ exc' = exc
    /\ pc' = IF pc = "clean_0" THEN "clean_1" ELSE "clean_2"
    /\ UNCHANGED <<exit, now, keylist, pairIdx, pending, pkg, result, target, attempts, calls, signalled, polled, workers, queue>>

CleanupNext == CleanupCall

CleanupSpec == CleanupInit /\ [][CleanupNext]_vars

\* C19: a call of cleanup raises nothing and leaves the directory of the
\* package absent and every other directory as it was; when the directory is
\* not there the call changes nothing, so the second of two calls in a row
\* changes nothing.
C19_CleanupIdempotent ==
    [][(pc \in {"clean_0", "clean_1"} /\ pc' # pc) =>
         /\ exc' = None
         /\ _build_dir(Pkg) \notin dirs'
         /\ \A d \in BuildDirs \ {_build_dir(Pkg)} : (d \in dirs') <=> (d \in dirs)
         /\ _build_dir(Pkg) \notin dirs => dirs' = dirs
         /\ pc = "clean_1" => dirs' = dirs]_vars

\* cleanup was called twice, the second time without the directory; other
\* directories are still there and nothing was raised
C19_Witness ==
    /\ pc = "clean_2"
    /\ _build_dir(Pkg) \notin dirs
    /\ dirs # {}
    /\ exc = None

(* ---------------------------------------------------------------------- *)
(* Several workers on one queue                                            *)
(* ---------------------------------------------------------------------- *)

\* the number of processes of main on the queue
NumWorkers == 2

Workers == 1..NumWorkers

\* the packages wanna-build has: the line it lists and its answer to a take
\* that succeeds
FleetJobs ==
    << [line |-> Line1, response |-> TakeResponses[2]],
       [line |-> <<"i386", "/", "sid", "/", "pkg_1.2-3", " ", "[optional:uncompiled]">>,
        response |-> <<"pkg", <<KV("status", "ok"), KV("pkg-ver", <<"pkg", "_", "1.2-3">>),
                                KV("suite", "sid"), KV("arch", "i386"),
                                KV("archive", "debian")>> >>] >>

\* the answer of wanna-build to a take that does not succeed
TakeRefused == TakeResponses[1]

\* the package of FleetJobs a Package is
JobOf(p) ==
    CHOOSE j \in DOMAIN FleetJobs :
      The(_parse_take_response(FleetJobs[j].response)).source_package_version
        = p.source_package_version

\* the package of FleetJobs a take names
JobNamed(archdistpkgver) ==
    CHOOSE j \in DOMAIN FleetJobs : ArchDistPkgVer(FleetJobs[j].line) = archdistpkgver

\* the answer of wanna-build to --list=needs-build for a pair: the lines of
\* the packages of the pair in state needs-build
RECURSIVE NeedsBuild(_, _, _)
NeedsBuild(q, pair, j) ==
    IF j > Len(FleetJobs) THEN <<>>
    ELSE LET parts == Split(ArchDistPkgVer(FleetJobs[j].line), "/", 3) IN
         (IF q[j] = "needs-build" /\ parts[1] = <<pair.arch>> /\ parts[2] = <<pair.dist>>
          THEN FleetJobs[j].line \o <<"\n">> ELSE <<>>)
           \o NeedsBuild(q, pair, j + 1)

mainvars == <<pc, exit, now, keylist, pairIdx, pending, pkg, result, target, attempts, exc, dirs,
              calls, signalled, polled>>

FleetInit ==
    /\ workers = [w \in Workers |->
                    [pc |-> "top", pairIdx |-> 1, pending |-> <<>>, pkg |-> None,
                     result |-> "", exc |-> None, refused |-> <<>>]]
    /\ queue = [j \in DOMAIN FleetJobs |-> "needs-build"]
    /\ pc = "fleet"
    /\ exit = FALSE
    /\ now = 0
    /\ keylist = <<>>
    /\ pairIdx = 1
    /\ pending = <<>>
    /\ pkg = None
    /\ result = ""
    /\ target = ""
    /\ attempts = 0
    /\ exc = None
    /\ dirs = {}
    /\ calls = <<>>
    /\ signalled = ""
    /\ polled = FALSE

\* worker w after the pair it is at: the next pair, or the poll is over and
\* main comes back to the top of the loop after the idle wait
WorkerNextPair(w) ==
    IF workers[w].pairIdx < NumPairs
    THEN [workers[w] EXCEPT !.pc = "list", !.pairIdx = @ + 1, !.pkg = None]
    ELSE [workers[w] EXCEPT !.pc = "top", !.pkg = None]

\* the top of the loop of main of worker w: next(pkgs) starts a poll
WorkerLoopTop(w) ==
    /\ workers[w].pc = "top"
    /\ workers' = [workers EXCEPT ![w] =
                     [pc |-> "list", pairIdx |-> 1, pending |-> <<>>, pkg |-> None,
                      result |-> "", exc |-> None, refused |-> <<>>]]
    /\ UNCHANGED queue
    /\ UNCHANGED mainvars

\* _get_next_wb of worker w: --list=needs-build for the current pair
WorkerList(w) ==
    /\ workers[w].pc = "list"
    /\ LET response == NeedsBuild(queue, PairAt(workers[w].pairIdx), 1)
           lines == SplitAll(response, "\n")
       IN workers' = [workers EXCEPT ![w] =
                        IF lines[1] = <<>> THEN WorkerNextPair(w)
                        ELSE [workers[w] EXCEPT !.pc = "take", !.pending = lines[1]]]
    /\ UNCHANGED queue
    /\ UNCHANGED mainvars

\* the worker's part of WorkerTake, building whatever the answer says
WorkerTaken_AnyStatus(w, response) ==
    [workers[w] EXCEPT
       !.pc = "build",
       !.pkg = _parse_take_response(
                 FleetJobs[JobNamed(ArchDistPkgVer(workers[w].pending))].response)]

\* the worker's part of WorkerTake: None goes on with the next pair, a
\* Package is returned to main, which builds it; refused keeps the
\* candidates of the poll whose take was refused
WorkerTaken(w, response) ==
    LET taken == _parse_take_response(response) IN
    IF taken = None
    THEN [WorkerNextPair(w) EXCEPT !.refused = Append(@, ArchDistPkgVer(workers[w].pending))]
    ELSE [workers[w] EXCEPT !.pc = "build", !.pkg = taken]

\* _take of worker w on pending[0]: wanna-build answers ok and marks the
\* package as building when it needs a build, and refuses otherwise
WorkerTake(w) ==
    /\ workers[w].pc = "take"
    /\ LET j == JobNamed(ArchDistPkgVer(workers[w].pending)) IN
       IF queue[j] = "needs-build"
       THEN /\ queue' = [queue EXCEPT ![j] = "building"]
            /\ workers' = [workers EXCEPT ![w] = WorkerTaken(w, FleetJobs[j].response)]
       ELSE /\ queue' = queue
            /\ workers' = [workers EXCEPT ![w] = WorkerTaken(w, TakeRefused)]
    /\ UNCHANGED mainvars

\* the state wanna-build gives a package on a report
Reported(verdict) == IF verdict = "give-back" THEN "needs-build" ELSE verdict

\* build of worker w: sbuild runs and the verdict is reported
WorkerBuild(w) ==
    /\ workers[w].pc = "build"
    /\ \E rc \in ReturnCodes :
         /\ workers' = [workers EXCEPT ![w] =
                          [workers[w] EXCEPT
                             !.result = BuildResult(rc),
                             !.pc = IF BuildReturns(BuildResult(rc)) THEN "upload"
                                    ELSE "cleanup"]]
         /\ queue' = [queue EXCEPT ![JobOf(The(workers[w].pkg))] = Reported(BuildResult(rc))]
    /\ UNCHANGED mainvars

\* upload of worker w: --uploaded after dupload, or --give-back and the
\* exception when every attempt failed
WorkerUpload(w) ==
    /\ workers[w].pc = "upload"
    /\ \E ok \in BOOLEAN :
         /\ workers' = [workers EXCEPT ![w] =
                          [workers[w] EXCEPT
                             !.pc = "cleanup",
                             !.exc = IF ok THEN None ELSE Some("CalledProcessError")]]
         /\ queue' = [queue EXCEPT ![JobOf(The(workers[w].pkg))] =
                        Reported(IF ok THEN "uploaded" ELSE "give-back")]
    /\ UNCHANGED mainvars

\* the finally clause of main of worker w
WorkerCleanup(w) ==
    /\ workers[w].pc = "cleanup"
    /\ workers' = [workers EXCEPT ![w] =
                     [workers[w] EXCEPT !.pc = IF workers[w].exc # None THEN "crashed"
                                              ELSE "top"]]
    /\ UNCHANGED queue
    /\ UNCHANGED mainvars

FleetNext ==
    \E w \in Workers :
      \/ WorkerLoopTop(w)
      \/ WorkerList(w)
      \/ WorkerTake(w)
      \/ WorkerBuild(w)
      \/ WorkerUpload(w)
      \/ WorkerCleanup(w)

FleetSpec == FleetInit /\ [][FleetNext]_vars

\* worker w is building or uploading package j
Handling(w, j) ==
    /\ workers[w].pc \in {"build", "upload"}
    /\ workers[w].pkg # None
    /\ JobOf(The(workers[w].pkg)) = j

\* the take of worker w for package j was refused in the poll w is in
Refused(w, j) ==
    \E i \in DOMAIN workers[w].refused :
      workers[w].refused[i] = ArchDistPkgVer(FleetJobs[j].line)

\* C20: with several workers on one queue that answers ok to one take of a
\* pending package only, no package is being built or uploaded by two workers
\* at a time; a worker whose take was refused does not build that package,
\* has no package and no exception, and goes on with the next pair (or ends
\* its poll after the last pair).
C20_OneBuilderPerJob ==
    /\ [](\A j \in DOMAIN FleetJobs :
            \A v, w \in Workers : (Handling(v, j) /\ Handling(w, j)) => v = w)
    /\ [](\A j \in DOMAIN FleetJobs :
            \A w \in Workers :
              Handling(w, j) => (queue[j] \in {"building", "built"} /\ ~Refused(w, j)))
    /\ [][\A w \in Workers :
            (workers[w].pc = "take" /\ workers'[w] # workers[w] /\ queue' = queue) =>
              /\ workers'[w].refused # workers[w].refused
              /\ workers'[w].pkg = None
              /\ workers'[w].exc = None
              /\ workers'[w].pc = IF workers[w].pairIdx < NumPairs THEN "list" ELSE "top"
              /\ workers'[w].pairIdx =
                   IF workers[w].pairIdx < NumPairs THEN workers[w].pairIdx + 1
                   ELSE workers[w].pairIdx]_vars

\* two workers took the same candidate; one is building it, and the other,
\* refused, went on to the next pair and is building the package it took
\* there
C20_Witness ==
    \E v, w \in Workers :
      /\ v # w
      /\ Handling(v, 1)
      /\ Refused(w, 1)
      /\ Handling(w, 2)

(* ---------------------------------------------------------------------- *)
(* One job at a time                                                       *)
(* ---------------------------------------------------------------------- *)

\* C21: an iteration of main takes at most one package; nothing is listed or
\* taken after a take that was answered ok, so none while the package is
\* built, uploaded or cleaned up; and whatever is done to a package is done
\* after the one take of the iteration that was answered ok.
C21_OneJobInFlight ==
    /\ Cardinality(Where(IsWonTake)) <= 1
    /\ \A i \in Where(IsWonTake) :
         \A j \in DOMAIN calls : j > i => (~IsList(calls[j]) /\ ~IsTake(calls[j]))
    /\ \A j \in Where(HandlesPackage) : \E i \in Where(IsWonTake) : i < j
    /\ pc \in JobPcs => (pkg # None /\ Where(IsWonTake) # {})

\* a take was refused, the next one was answered ok, and that package was
\* built, uploaded and cleaned up with no list or take in between
C21_Witness ==
    /\ pc = "top"
    /\ Where(IsLostTake) # {}
    /\ Cardinality(Where(IsWonTake)) = 1
    /\ \E i \in DOMAIN calls : IsQuery(calls[i], "--uploaded") /\ calls[i].ok
    /\ IsCleanup(Last(calls))

(* ---------------------------------------------------------------------- *)
(* The reports about a job                                                 *)
(* ---------------------------------------------------------------------- *)

\* the reports made to wanna-build in the iteration, in order
Reports == SelectSeq(calls, IsReport)

\* what the reports of the iteration say, in order
ReportNames == [i \in DOMAIN Reports |-> Reports[i].command[1]]

\* main is done with the package of the iteration
JobDone == JobInFlight /\ pc \in {"top", "crashed"}

\* C22: the reports about a job are, in order, attempted; or give-back; or
\* built and then uploaded; or built and then give-back. No dupload runs
\* before the built report, nothing is reported after the uploaded report
\* and nothing after the cleanup.
C22_ReportSequences ==
    /\ JobDone => ReportNames \in {<<"--attempted">>, <<"--give-back">>,
                                   <<"--built", "--uploaded">>, <<"--built", "--give-back">>}
    /\ \A i \in Where(IsDupload) : \E j \in Where(IsReport) : j < i /\ IsQuery(calls[j], "--built")
    /\ \A i, j \in DOMAIN calls :
         (i < j /\ IsQuery(calls[i], "--uploaded")) => ~IsReport(calls[j])
    /\ \A i, j \in DOMAIN calls : (i < j /\ IsCleanup(calls[i])) => ~IsReport(calls[j])

C24_ShutdownTerminates ==
    /\ [][exit => exit']_vars
    /\ [](exit => Cardinality(Where(IsWonTake)) <= 1)
    /\ [][(exit /\ pc \in JobPcs \cup {"yielded", "waiting", "top"}) =>
            Len(PollCalls') <= Len(PollCalls)]_vars
    /\ [][(exit /\ pc = "waiting" /\ pc' # pc) => pc' = "top"]_vars
    /\ [][(exit /\ pc = "top" /\ pc' # pc) => pc' = "exited"]_vars
    /\ exit ~> (pc \in {"exited", "crashed"})

\* the flag was set while main waited, and main ended at the top of the loop
C24_Witness ==
    /\ pc = "exited"
    /\ exit
    /\ signalled = "wait"

(* ---------------------------------------------------------------------- *)
(* The address of the key                                                  *)
(* ---------------------------------------------------------------------- *)

\* the uid: lines that belong to the key of the sec: line at position i: those
\* between it and the next sec: line
OwnUids(i) ==
    {u \in DOMAIN keylist :
       /\ u > i
       /\ keylist[u].type = "uid"
       /\ \A m \in DOMAIN keylist : (i < m /\ m < u) => ~IsSec(keylist[m])}

\* the address of the last uid: line of the key at position i, None without one
OwnEmail(i) ==
    IF OwnUids(i) = {} THEN None
    ELSE Some(keylist[CHOOSE u \in OwnUids(i) : \A v \in OwnUids(i) : v <= u].email)

\* C25: the email of the key _pick_gpg_key returns is the address of the last
\* uid: line between the sec: line of that key and the next sec: line; the
\* uid: lines of another key, also of a rejected one, do not set it.
C25_EmailOfOwnUid ==
    (pc = "picked" /\ calls[1].raised = None) =>
      \A i \in DOMAIN keylist :
        (IsSec(keylist[i]) /\ keylist[i].keyid = The(calls[1].key).keyid) =>
          The(calls[1].key).email = OwnEmail(i)

(* ---------------------------------------------------------------------- *)
(* _construct_sbuild_cmd on its own                                        *)
(* ---------------------------------------------------------------------- *)

\* the optional fields of a take answer besides binNMU, with a value each
OptionalFields ==
    << KV("build_dep_resolver", <<"aptitude">>), KV("mail_logs", <<"logs@example.com">>),
       KV("extra-changelog", <<"Rebuild against libfoo2.">>),
       KV("extra-depends", <<"glibc (>> 1)">>), KV("extra-conflicts", <<"libfoo1">>) >>

\* the fields of OptionalFields whose position is in given, in order
RECURSIVE Given(_, _)
Given(given, i) ==
    IF i > Len(OptionalFields) THEN <<>>
    ELSE (IF i \in given THEN <<OptionalFields[i]>> ELSE <<>>) \o Given(given, i + 1)

\* a take answer with status ok for pkg with the optional fields of given
CmdResponse(arch, binnmu, given) ==
    <<"pkg",
      <<KV("status", "ok"), KV("pkg-ver", <<"pkg", "_", "1.2-3">>),
        KV("suite", "sid"), KV("arch", arch), KV("archive", "debian")>>
        \o (IF binnmu # None THEN <<KV("binNMU", The(binnmu))>> ELSE <<>>)
        \o Given(given, 1)>>

\* the key _pick_gpg_key returns to _construct_sbuild_cmd
DefaultKey == Key("DFE4C0B481F37BDB", ExpiryMargin, Some("buildd@example.com"))

CmdInit ==
    /\ pc = "cmd"
    /\ pkg \in {_parse_take_response(CmdResponse(a, n, g)) :
                  a \in {"amd64", "all"}, n \in BinNMUs, g \in SUBSET DOMAIN OptionalFields}
    /\ exit = FALSE
    /\ now = 0
    /\ keylist = <<>>
    /\ pairIdx = 1
    /\ pending = <<>>
    /\ result = ""
    /\ target = ""
    /\ attempts = 0
    /\ exc = None
    /\ dirs = {}
    /\ calls = <<>>
    /\ signalled = ""
    /\ polled = FALSE
    /\ workers = <<>>
    /\ queue = <<>>

\* _construct_sbuild_cmd(pkg)
ConstructCmd ==
    /\ pc = "cmd"
    /\ calls' = <<[op |-> "sbuild_cmd", cmd |-> _construct_sbuild_cmd(Pkg, DefaultKey)]>>
    /\ pc' = "cmd_done"
    /\ UNCHANGED <<exit, now, keylist, pairIdx, pending, pkg, result, target, attempts, exc, dirs, signalled, polled, workers, queue>>

CmdNext == ConstructCmd

CmdSpec == CmdInit /\ [][CmdNext]_vars

\* the command holds the argument that starts with flag and goes on with value
Carries(cmd, flag, value) == \E i \in DOMAIN cmd : cmd[i] = <<flag>> \o value

\* the command holds an argument that starts with flag
HasFlag(cmd, flag) == \E i \in DOMAIN cmd : cmd[i][1] = flag

\* flag is in the command exactly when the field is set, and then with its value
FlagIffField(cmd, flag, field) ==
    /\ HasFlag(cmd, flag) <=> (field # None)
    /\ field # None => Carries(cmd, flag, The(field))

\* version ends with '+bN' for the binNMU N of the package
HasBinNMUSuffix(version, p) ==
    /\ p.binnmu # None
    /\ Len(version) >= 2
    /\ SubSeq(version, Len(version) - 1, Len(version)) = <<"+b">> \o FormatInt(The(p.binnmu))

\* C26: the command of sbuild holds --binNMU=N and --make-binNMU exactly
\* when binnmu and binnmu_changelog are both set, and each other optional
\* flag exactly when its field is set; and whenever binary_version and
\* changes_file carry '+bN', the command holds --binNMU=N.
C26_OptionalFlags ==
    pc = "cmd_done" =>
      LET cmd == calls[1].cmd
          p == Pkg
      IN /\ HasFlag(cmd, "--binNMU=") <=> (p.binnmu # None /\ p.binnmu_changelog # None)
         /\ HasFlag(cmd, "--make-binNMU=") <=> (p.binnmu # None /\ p.binnmu_changelog # None)
         /\ FlagIffField(cmd, "--build-dep-resolver=", p.build_dep_resolver)
         /\ FlagIffField(cmd, "--mail-log-to=", p.mail_logs)
         /\ FlagIffField(cmd, "--add-depends=", p.extra_depends)
         /\ FlagIffField(cmd, "--add-conflicts=", p.extra_conflicts)
         /\ (HasBinNMUSuffix(p.binary_version, p)
              \/ HasBinNMUSuffix(SubSeq(p.changes_file, 1, Len(p.changes_file) - 3), p)) =>
              Carries(cmd, "--binNMU=", FormatInt(The(p.binnmu)))

====
